---- MODULE Spec2Model ----
(***************************************************************************)
(* Model of polyfactory/fields.py: the field descriptors Use,              *)
(* PostGenerated and Fixture, their constructors and their to_value()      *)
(* methods, together with the registry FactoryFixture.factory_class_map    *)
(* that Fixture.to_value() reads.                                          *)
(*                                                                         *)
(* Python values that meet a truth test or an "is it None" question are    *)
(* tagged records (None, PyInt(n), Class(c)); positional arguments are       *)
(* sequences, named arguments are functions from names to values.         *)
(* Records are written with their fields in alphabetical order.            *)
(***************************************************************************)
EXTENDS Integers, Sequences, FiniteSets, TLC

VARIABLES
    desc,               \* the descriptor object under observation (NoDesc before any construction)
    factory_class_map,  \* FactoryFixture.factory_class_map: identity -> factory class
    calls,              \* the to_value() calls made on desc so far, each with what it invoked
    resolved,           \* number of to_value() calls made in the whole run
    invocations,        \* number of invocations of wrapped callables and build/batch in the whole run
    lookups,            \* number of factory_class_map.get() calls in the whole run
    built               \* number of objects the registered factories have built

vars == <<desc, factory_class_map, calls, resolved, invocations, lookups, built>>

\* Bound of the exploration: to_value() calls per run.
MaxCalls == 3

(***************************************************************************)
(* Python values                                                           *)
(***************************************************************************)
None == [t |-> "NoneType"]
PyInt(n) == [t |-> "int", v |-> n]
Class(c) == [t |-> "type", v |-> c]

\* bool(x), as the `if` and `:=` tests of Fixture.to_value apply it.
Truthy(x) ==
    CASE x.t = "NoneType" -> FALSE
      [] x.t = "int" -> x.v # 0
      [] x.t = "type" -> TRUE

\* The outcome of a call: a returned value or a raised exception.
Return(v) == [kind |-> "return", val |-> v]
Raise(e) == [err |-> e, kind |-> "raise"]

\* dict.get(key): the value, or None when the key is absent.
Get(map, key) == IF key \in DOMAIN map THEN map[key] ELSE None

(***************************************************************************)
(* The callables wrapped by Use and PostGenerated (inputs of the model):   *)
(*   add      = lambda a, b: a + b                                         *)
(*   double_x = lambda name, vals: vals["x"] * 2                           *)
(*   echo     = lambda *args, **kwargs: (args, kwargs)                     *)
(*   boom     = a function of any arguments that raises ValueError         *)
(***************************************************************************)
Params(fn) ==
    CASE fn = "add" -> <<"a", "b">>
      [] fn = "double_x" -> <<"name", "vals">>

\* Python's binding of positional and named arguments to the parameters of a
\* function with plain parameters only: ok = FALSE is a TypeError.
Bind(params, args, kwargs) ==
    LET names == {params[i] : i \in 1..Len(params)}
        tooMany == Len(args) > Len(params)
        unexpected == \E k \in DOMAIN kwargs : k \notin names
        multiple == \E i \in 1..Len(args) : i <= Len(params) /\ params[i] \in DOMAIN kwargs
        missing == \E i \in (Len(args) + 1)..Len(params) : params[i] \notin DOMAIN kwargs
    IN  IF tooMany \/ unexpected \/ multiple \/ missing
        THEN [ok |-> FALSE]
        ELSE [env |-> [p \in names |->
                          IF \E i \in 1..Len(args) : params[i] = p
                          THEN args[CHOOSE i \in 1..Len(args) : params[i] = p]
                          ELSE kwargs[p]],
              ok |-> TRUE]

\* The call of fn with positional arguments args and named arguments kwargs.
Apply(fn, args, kwargs) ==
    CASE fn = "echo" -> Return([args |-> args, kwargs |-> kwargs])
      [] fn = "boom" -> Raise("ValueError")
      [] fn = "add" ->
            LET b == Bind(Params(fn), args, kwargs)
            IN  IF b.ok THEN Return(b.env["a"] + b.env["b"]) ELSE Raise("TypeError")
      [] fn = "double_x" ->
            LET b == Bind(Params(fn), args, kwargs)
            IN  IF ~b.ok THEN Raise("TypeError")
                ELSE IF "x" \in DOMAIN b.env["vals"]
                     THEN Return(b.env["vals"]["x"] * 2)
                     ELSE Raise("KeyError")

\* One invocation made by a to_value() call, with what the callee answered.
Invocation(callee, op, args, kwargs, result) ==
    [args |-> args, callee |-> callee, kwargs |-> kwargs, op |-> op, result |-> result]

(***************************************************************************)
(* The factories the registry holds (external to fields.py):               *)
(*   PersonFactory builds objects; BrokenFactory raises ValueError.        *)
(***************************************************************************)
Obj(factory, kwargs, id) == [factory |-> factory, id |-> id, kwargs |-> kwargs]

\* factory.build with named arguments kwargs, when the factories have built n objects so far.
Build(factory, kwargs, n) ==
    IF factory.v = "BrokenFactory" THEN Raise("ValueError")
    ELSE Return(Obj(factory.v, kwargs, n + 1))

\* factory.batch with size and named arguments kwargs: a list of size objects (empty when size <= 0).
Batch(factory, size, kwargs, n) ==
    IF factory.v = "BrokenFactory" THEN Raise("ValueError")
    ELSE IF size <= 0 THEN Return(<<>>)
    ELSE Return([i \in 1..size |-> Obj(factory.v, kwargs, n + i)])

\* How many objects an invocation of build or batch has made.
Made(inv) ==
    IF inv.result.kind = "raise" THEN 0
    ELSE IF inv.op = "build" THEN 1
    ELSE Len(inv.result.val)

(***************************************************************************)
(* The descriptors                                                         *)
(***************************************************************************)
NoDesc == [kind |-> "none"]

\* Use.__init__: self.fn, self.kwargs, self.args
Use(fn, args, kwargs) ==
    [args |-> args, fn |-> [value |-> fn], kind |-> "Use", kwargs |-> kwargs]

\* PostGenerated.__init__: self.fn, self.kwargs, self.args
PostGenerated(fn, args, kwargs) ==
    [args |-> args, fn |-> [value |-> fn], kind |-> "PostGenerated", kwargs |-> kwargs]

\* Fixture.__init__: self.fixture, self.size, self.kwargs
Fixture(fixture, size, kwargs) ==
    [fixture |-> [value |-> fixture], kind |-> "Fixture", kwargs |-> kwargs, size |-> size]

\* What one to_value() call did: the registry keys it looked up, the
\* invocations it made, and its outcome.
Did(looked, invoked, outcome) ==
    [invoked |-> invoked, looked |-> looked, outcome |-> outcome]

\* Use.to_value(self)
Use_to_value(self) ==
    LET result == Apply(self.fn.value, self.args, self.kwargs)
    IN  Did(<<>>,
            <<Invocation(self.fn.value, "call", self.args, self.kwargs, result)>>,
            result)

\* A variant that leaves the field name out of the call.
PostGenerated_to_value_nameless(self, name, values) ==
    LET args == <<values>> \o self.args
        result == Apply(self.fn.value, args, self.kwargs)
    IN  Did(<<>>,
            <<Invocation(self.fn.value, "call", args, self.kwargs, result)>>,
            result)

\* PostGenerated.to_value(self, name, values)
PostGenerated_to_value(self, name, values) ==
    LET args == <<name, values>> \o self.args
        result == Apply(self.fn.value, args, self.kwargs)
    IN  Did(<<>>,
            <<Invocation(self.fn.value, "call", args, self.kwargs, result)>>,
            result)

\* return factory.batch(self.size, **self.kwargs)
Batched(self, factory, n) ==
    LET result == Batch(factory, self.size.v, self.kwargs, n)
    IN  Did(<<self.fixture.value>>,
            <<Invocation(factory, "batch", <<self.size>>, self.kwargs, result)>>,
            result)

\* return factory.build(**self.kwargs)
Built(self, factory, n) ==
    LET result == Build(factory, self.kwargs, n)
    IN  Did(<<self.fixture.value>>,
            <<Invocation(factory, "build", <<>>, self.kwargs, result)>>,
            result)

\* raise ParameterError("fixture has not been registered ...")
NotRegistered(self) ==
    Did(<<self.fixture.value>>, <<>>, Raise("ParameterError"))

\* A variant that answers None for a target that is not registered.
Fixture_to_value_silent(self, map, n) ==
    LET factory == Get(map, self.fixture.value)
    IN  IF Truthy(factory)
        THEN IF Truthy(self.size) THEN Batched(self, factory, n) ELSE Built(self, factory, n)
        ELSE Did(<<self.fixture.value>>, <<>>, Return(None))

\* A variant that calls build without the stored build kwargs.
Fixture_to_value_no_kwargs(self, map, n) ==
    LET factory == Get(map, self.fixture.value)
    IN  IF Truthy(factory)
        THEN IF Truthy(self.size) THEN Batched(self, factory, n)
             ELSE LET result == Build(factory, <<>>, n)
                  IN  Did(<<self.fixture.value>>,
                          <<Invocation(factory, "build", <<>>, <<>>, result)>>,
                          result)
        ELSE NotRegistered(self)

\* A variant that ignores size and always calls build.
Fixture_to_value_build_only(self, map, n) ==
    LET factory == Get(map, self.fixture.value)
    IN  IF Truthy(factory) THEN Built(self, factory, n) ELSE NotRegistered(self)

\* A variant that reports a failure of build or batch as a ParameterError.
Fixture_to_value_wrapping(self, map, n) ==
    LET factory == Get(map, self.fixture.value)
        did == IF Truthy(self.size) THEN Batched(self, factory, n) ELSE Built(self, factory, n)
    IN  IF Truthy(factory)
        THEN IF did.outcome.kind = "raise"
             THEN Did(did.looked, did.invoked, Raise("ParameterError"))
             ELSE did
        ELSE NotRegistered(self)

\* Fixture.to_value(self), with the registry `map` and n objects built so far.
Fixture_to_value(self, map, n) ==
    LET factory == Get(map, self.fixture.value)
    IN  IF Truthy(factory)
        THEN IF Truthy(self.size) THEN Batched(self, factory, n) ELSE Built(self, factory, n)
        ELSE NotRegistered(self)

(***************************************************************************)
(* Inputs                                                                  *)
(***************************************************************************)
UseFns == {"add", "echo", "boom"}
PostFns == {"double_x", "echo", "boom"}
ArgLists == {<<>>, <<2>>, <<2, 3>>}
PostArgLists == {<<>>, <<2>>}
KwargMaps == {<<>>, "b" :> 3}
Names == {"y"}
ValueMaps == {"x" :> 10, "w" :> 1}
Identities == {"person_fixture", "pet_fixture"}
Factories == {Class("PersonFactory"), Class("BrokenFactory")}
Sizes == {None, PyInt(-1), PyInt(0), PyInt(2)}
BuildKwargs == {<<>>, "name" :> 7}

(***************************************************************************)
(* The state machine                                                       *)
(***************************************************************************)
Init ==
    /\ desc = NoDesc
    /\ factory_class_map = <<>>
    /\ calls = <<>>
    /\ resolved = 0
    /\ invocations = 0
    /\ lookups = 0
    /\ built = 0

\* A newly constructed descriptor replaces the one under observation; nothing
\* else changes.
Constructed ==
    /\ calls' = <<>>
    /\ UNCHANGED <<factory_class_map, resolved, invocations, lookups, built>>

\* A variant that calls the callable once when the descriptor is constructed.
UseInitEager(fn, args, kwargs) ==
    /\ desc' = Use(fn, args, kwargs)
    /\ calls' = <<>>
    /\ invocations' = invocations + 1
    /\ UNCHANGED <<factory_class_map, resolved, lookups, built>>

UseInit(fn, args, kwargs) ==
    /\ desc' = Use(fn, args, kwargs)
    /\ Constructed

PostGeneratedInit(fn, args, kwargs) ==
    /\ desc' = PostGenerated(fn, args, kwargs)
    /\ Constructed

FixtureInit(fixture, size, kwargs) ==
    /\ desc' = Fixture(fixture, size, kwargs)
    /\ Constructed

\* What the registry holds for the identity a Fixture descriptor targets
\* (None: nothing; a descriptor of another kind targets nothing).
Registered(d, map) ==
    IF d.kind = "Fixture" /\ d.fixture.value \in DOMAIN map
    THEN map[d.fixture.value]
    ELSE None

\* The entry a to_value() call leaves in `calls`: its arguments, what the
\* registry held for the descriptor's target when the call was made, and what
\* the call did.
Call(args, did) ==
    [args |-> args, invoked |-> did.invoked, looked |-> did.looked,
     outcome |-> did.outcome, registered |-> Registered(desc, factory_class_map)]

Record(args, did) ==
    /\ calls' = Append(calls, Call(args, did))
    /\ resolved' = resolved + 1
    /\ invocations' = invocations + Len(did.invoked)
    /\ lookups' = lookups + Len(did.looked)

\* A variant that answers every call after the first with the first result.
UseToValueMemo ==
    /\ desc.kind = "Use"
    /\ resolved < MaxCalls
    /\ Record(<<>>, IF calls = <<>> THEN Use_to_value(desc)
                    ELSE Did(<<>>, <<>>, calls[1].outcome))
    /\ UNCHANGED <<desc, factory_class_map, built>>

UseToValue ==
    /\ desc.kind = "Use"
    /\ resolved < MaxCalls
    /\ Record(<<>>, Use_to_value(desc))
    /\ UNCHANGED <<desc, factory_class_map, built>>

PostGeneratedToValue(name, values) ==
    /\ desc.kind = "PostGenerated"
    /\ resolved < MaxCalls
    /\ Record(<<name, values>>, PostGenerated_to_value(desc, name, values))
    /\ UNCHANGED <<desc, factory_class_map, built>>

\* The objects a to_value() call has made the factories build.
MadeBy(did) == IF did.invoked = <<>> THEN 0 ELSE Made(did.invoked[1])

\* A variant that keeps the factory found by the first call and never looks
\* the target up again.
FixtureToValueCached ==
    /\ desc.kind = "Fixture"
    /\ resolved < MaxCalls
    /\ LET map == IF calls = <<>> THEN factory_class_map
                  ELSE IF calls[1].registered = None THEN <<>>
                  ELSE desc.fixture.value :> calls[1].registered
           did == Fixture_to_value(desc, map, built)
       IN  /\ Record(<<>>, did)
           /\ built' = built + MadeBy(did)
    /\ UNCHANGED <<desc, factory_class_map>>

\* A variant that takes the factory out of the registry (pop in place of get).
FixtureToValuePop ==
    /\ desc.kind = "Fixture"
    /\ resolved < MaxCalls
    /\ LET did == Fixture_to_value(desc, factory_class_map, built)
       IN  /\ Record(<<>>, did)
           /\ built' = built + MadeBy(did)
    /\ factory_class_map' =
           [k \in DOMAIN factory_class_map \ {desc.fixture.value} |-> factory_class_map[k]]
    /\ UNCHANGED desc

FixtureToValue ==
    /\ desc.kind = "Fixture"
    /\ resolved < MaxCalls
    /\ LET did == Fixture_to_value(desc, factory_class_map, built)
       IN  /\ Record(<<>>, did)
           /\ built' = built + MadeBy(did)
    /\ UNCHANGED <<desc, factory_class_map>>

\* FactoryFixture registers a factory class under its fixture identity.
Register(fixture, factory) ==
    /\ factory_class_map' =
           [k \in DOMAIN factory_class_map \cup {fixture} |->
               IF k = fixture THEN factory ELSE factory_class_map[k]]
    /\ UNCHANGED <<desc, calls, resolved, invocations, lookups, built>>

Next ==
    \/ \E fn \in UseFns, args \in ArgLists, kwargs \in KwargMaps : UseInit(fn, args, kwargs)
    \/ \E fn \in PostFns, args \in PostArgLists, kwargs \in KwargMaps :
          PostGeneratedInit(fn, args, kwargs)
    \/ \E fixture \in Identities, size \in Sizes, kwargs \in BuildKwargs :
          FixtureInit(fixture, size, kwargs)
    \/ UseToValue
    \/ \E name \in Names, values \in ValueMaps : PostGeneratedToValue(name, values)
    \/ FixtureToValue
    \/ \E fixture \in Identities, factory \in Factories : Register(fixture, factory)

Spec == Init /\ [][Next]_vars

(***************************************************************************)
(* Properties                                                              *)
(***************************************************************************)
Made1(c) == Len(c.invoked) = 1

\* C1: a Fixture descriptor whose target is not registered when to_value()
\* is called raises ParameterError, returns nothing and calls neither build
\* nor batch, whatever its size and build kwargs.
C1_UnregisteredRaises ==
    \A i \in 1..Len(calls) :
        (desc.kind = "Fixture" /\ calls[i].registered = None) =>
            /\ calls[i].outcome = Raise("ParameterError")
            /\ calls[i].invoked = <<>>

C1_Witness ==
    /\ desc = Fixture("person_fixture", PyInt(2), "name" :> 7)
    /\ "pet_fixture" \in DOMAIN factory_class_map
    /\ "person_fixture" \notin DOMAIN factory_class_map
    /\ Len(calls) = 1
    /\ calls[1].outcome = Raise("ParameterError")

\* C2: with a registered target and size None, one to_value() call makes
\* exactly one call of the registered factory's build with exactly the stored
\* build kwargs, no call of batch, raises no ParameterError and has the
\* outcome of that build call.
C2_BuildOnce ==
    \A i \in 1..Len(calls) :
        (desc.kind = "Fixture" /\ calls[i].registered # None /\ desc.size = None) =>
            /\ Made1(calls[i])
            /\ calls[i].invoked[1].op = "build"
            /\ calls[i].invoked[1].callee = calls[i].registered
            /\ calls[i].invoked[1].args = <<>>
            /\ calls[i].invoked[1].kwargs = desc.kwargs
            /\ calls[i].outcome = calls[i].invoked[1].result
            /\ calls[i].outcome # Raise("ParameterError")

C2_Witness ==
    /\ desc = Fixture("person_fixture", None, "name" :> 7)
    /\ Len(calls) = 1
    /\ calls[1].registered = Class("PersonFactory")
    /\ calls[1].outcome = Return(Obj("PersonFactory", "name" :> 7, built))

\* C3: with a registered target and a positive size n, one to_value() call
\* makes exactly one call of the registered factory's batch with first
\* argument n and exactly the stored build kwargs, no call of build, and has
\* the outcome of that batch call.
C3_BatchOnce ==
    \A i \in 1..Len(calls) :
        (desc.kind = "Fixture" /\ calls[i].registered # None
            /\ desc.size # None /\ desc.size.v > 0) =>
            /\ Made1(calls[i])
            /\ calls[i].invoked[1].op = "batch"
            /\ calls[i].invoked[1].callee = calls[i].registered
            /\ calls[i].invoked[1].args = <<desc.size>>
            /\ calls[i].invoked[1].kwargs = desc.kwargs
            /\ calls[i].outcome = calls[i].invoked[1].result

C3_Witness ==
    /\ desc = Fixture("pet_fixture", PyInt(2), "name" :> 7)
    /\ Len(calls) = 1
    /\ calls[1].registered = Class("PersonFactory")
    /\ calls[1].outcome.kind = "return"
    /\ Len(calls[1].outcome.val) = 2
    /\ built >= 2

\* C4: every to_value() call on a Use descriptor invokes the wrapped callable
\* exactly once with the stored positional and named arguments and has the
\* outcome of that invocation: k calls make k invocations.
C4_UseInvokesEachTime ==
    \A i \in 1..Len(calls) :
        desc.kind = "Use" =>
            /\ Made1(calls[i])
            /\ calls[i].invoked[1].callee = desc.fn.value
            /\ calls[i].invoked[1].args = desc.args
            /\ calls[i].invoked[1].kwargs = desc.kwargs
            /\ calls[i].invoked[1].result = Apply(desc.fn.value, desc.args, desc.kwargs)
            /\ calls[i].outcome = calls[i].invoked[1].result

C4_Witness ==
    /\ desc = Use("add", <<2>>, "b" :> 3)
    /\ Len(calls) = 2
    /\ calls[2].outcome = Return(5)
    /\ Made1(calls[1]) /\ Made1(calls[2])

\* C5: to_value(name, values) on a PostGenerated descriptor invokes the
\* wrapped callable with the field name first, the caller's mapping second,
\* then the stored positional arguments, and the stored named arguments,
\* and has the outcome of that invocation.
C5_PostGeneratedArguments ==
    \A i \in 1..Len(calls) :
        desc.kind = "PostGenerated" =>
            /\ Made1(calls[i])
            /\ calls[i].invoked[1].callee = desc.fn.value
            /\ calls[i].invoked[1].args = calls[i].args \o desc.args
            /\ calls[i].invoked[1].kwargs = desc.kwargs
            /\ calls[i].invoked[1].result =
                   Apply(desc.fn.value, calls[i].args \o desc.args, desc.kwargs)
            /\ calls[i].outcome = calls[i].invoked[1].result

C5_Witness ==
    /\ desc = PostGenerated("echo", <<2>>, "b" :> 3)
    /\ Len(calls) = 1
    /\ calls[1].outcome =
           Return([args |-> <<"y", "x" :> 10, 2>>, kwargs |-> "b" :> 3])

\* C6: an error raised by the wrapped callable, or by build or batch, is the
\* outcome of to_value(), after a single invocation; to_value() ends with an
\* error of its own (ParameterError) only on a failed registry lookup.
C6_ErrorsPropagate ==
    \A i \in 1..Len(calls) :
        /\ Len(calls[i].invoked) <= 1
        /\ (Made1(calls[i]) /\ calls[i].invoked[1].result.kind = "raise") =>
               calls[i].outcome = calls[i].invoked[1].result
        /\ calls[i].invoked = <<>> =>
               /\ desc.kind = "Fixture"
               /\ calls[i].registered = None
               /\ calls[i].outcome = Raise("ParameterError")
        /\ calls[i].outcome = Raise("ParameterError") => calls[i].invoked = <<>>

C6_Witness ==
    /\ desc.kind = "Fixture"
    /\ desc.size = PyInt(2)
    /\ Len(calls) = 1
    /\ calls[1].registered = Class("BrokenFactory")
    /\ calls[1].invoked[1].op = "batch"
    /\ calls[1].outcome = Raise("ValueError")

\* C7: the outcome of each Fixture.to_value() call depends only on what the
\* registry holds for the target at that call: it fails exactly when nothing
\* is registered, and otherwise calls the factory registered at that moment
\* once, so a descriptor that failed before registration resolves after it
\* and k resolutions make k build/batch calls.
C7_LookupAtCallTime ==
    \A i \in 1..Len(calls) :
        desc.kind = "Fixture" =>
            /\ calls[i].looked = <<desc.fixture.value>>
            /\ calls[i].registered = None <=> calls[i].outcome = Raise("ParameterError")
            /\ calls[i].registered = None <=> calls[i].invoked = <<>>
            /\ calls[i].registered # None =>
                   /\ Made1(calls[i])
                   /\ calls[i].invoked[1].callee = calls[i].registered
                   /\ calls[i].outcome = calls[i].invoked[1].result

C7_Witness ==
    /\ desc.kind = "Fixture"
    /\ Len(calls) = 3
    /\ calls[1].outcome = Raise("ParameterError")
    /\ calls[2].outcome.kind = "return" /\ Made1(calls[2])
    /\ calls[3].outcome.kind = "return" /\ Made1(calls[3])
    /\ calls[2].outcome # calls[3].outcome

\* C8: with a registered target, to_value() calls batch whenever size is set
\* (any value but None, 0 included) and build only when size is None.
C8_BatchWheneverSizeSet ==
    \A i \in 1..Len(calls) :
        (desc.kind = "Fixture" /\ calls[i].registered # None) =>
            /\ Made1(calls[i])
            /\ calls[i].invoked[1].op = (IF desc.size # None THEN "batch" ELSE "build")

\* C9: constructing descriptors invokes nothing: as long as no to_value() call
\* has been made, no callable, build or batch has been invoked and the
\* registry has not been looked up; and every construction is possible,
\* whatever the callable's arity and whether or not the target is registered.
C9_ConstructionInvokesNothing ==
    /\ resolved = 0 => (invocations = 0 /\ lookups = 0 /\ calls = <<>>)
    /\ \A fn \in UseFns, args \in ArgLists, kwargs \in KwargMaps :
           ENABLED UseInit(fn, args, kwargs)
    /\ \A fn \in PostFns, args \in PostArgLists, kwargs \in KwargMaps :
           ENABLED PostGeneratedInit(fn, args, kwargs)
    /\ \A fixture \in Identities, size \in Sizes, kwargs \in BuildKwargs :
           ENABLED FixtureInit(fixture, size, kwargs)

C9_Witness ==
    /\ desc = Use("add", <<2, 3>>, "b" :> 3)
    /\ Apply(desc.fn.value, desc.args, desc.kwargs) = Raise("TypeError")
    /\ factory_class_map = <<>>
    /\ resolved = 0
    /\ invocations = 0

\* C10: a to_value() call, whether it returns or raises, changes neither the
\* descriptor's stored configuration nor the registry.
C10_ToValueFrame ==
    [][resolved' # resolved => (desc' = desc /\ factory_class_map' = factory_class_map)]_vars

C10_Witness ==
    /\ desc.kind = "Fixture"
    /\ Len(calls) = 2
    /\ calls[1].outcome.kind = "return"
    /\ calls[2].outcome.kind = "raise"
    /\ DOMAIN factory_class_map = Identities

====
